---------------------------- MODULE Spec2Model ----------------------------
(***************************************************************************)
(* Label-cropping batch tools (FlipkartCropper, MeshooCropper,             *)
(* JioMartCropper): the per-folder pipeline                                *)
(*   check_input_file -> pdf_merger -> convert_pdf_to_string ->            *)
(*   extract_data -> sort_values -> page reorder -> pdf_whitespace ->      *)
(*   pdf_cropper -> final copy -> create_count_excel                       *)
(* and the coordinator that fans the folders out over a process pool.      *)
(*                                                                         *)
(* A page text is a sequence of lines, a line a sequence of tokens (the    *)
(* pieces between blanks; a marker phrase such as "TAX INVOICE" is one     *)
(* token).  What the code asks of a string (substring tests, int(),        *)
(* isdigit(), strip(), lower()) is answered by tables over the tokens of   *)
(* the fixture pages.                                                      *)
(***************************************************************************)
EXTENDS Integers, Sequences, FiniteSets, TLC

VARIABLES
    variant,      \* which of the three tools runs
    config,       \* config.json / load_config: the option record
    input,        \* input[f]: the files of input sub-folder f, in listing order
    status,       \* the server's answer and what check_status made of it
    all_pdf,      \* all_pdf[f]: the paths check_input_file returned to job f
    mainPc,       \* the coordinator's position in main()
    collected,    \* the folder jobs whose future.result() main() has taken
    pc,           \* pc[f]: the position of folder job f in process_folder
    merged,       \* merged[f]: pages of temp_path/merged.pdf (output.pdf)
    all_page,     \* all_page[f]: the page texts convert_pdf_to_string returned
    pending,      \* pending[f]: page workers of extract_data not yet collected
    df,           \* df[f]: the record table, a sequence of rows
    error_pages,  \* error_pages[f]: extract_data's list of error page indices
    sorted,       \* sorted[f]: pages of temp_path/sorted.pdf (output_sorted.pdf)
    cropped,      \* cropped[f]: the path pdf_cropper returned to process_folder
    fs,           \* the files under the working directory that are not in a
                  \* folder of their own: "temp/..." and "output/error_pages.pdf"
    out           \* out[f]: what job f has saved in its output folder

vars == << variant, config, input, status, all_pdf, mainPc, collected, pc, merged,
           all_page, pending, df, error_pages, sorted, cropped, fs, out >>

----------------------------------------------------------------------------
(* Bounds of the model.                                                    *)

\* folders under the input root
MaxFolders == 2
\* pages (one-page PDF files) over all folders of a run
MaxPages == 2
\* the pages of one folder in a run over several folders
MaxBatchPages == 1

----------------------------------------------------------------------------
(* Python sequences are 0-based: At(s, i) is s[i] for 0 <= i < len(s).     *)

InRange(s, i) == i >= 0 /\ i < Len(s)
At(s, i) == s[i + 1]

\* [x for x in range(len(page)) if P(page[x])], as the set of indices
Indices(s, P(_)) == { i \in 0 .. Len(s) - 1 : P(At(s, i)) }
Min(S) == CHOOSE x \in S : \A y \in S : x <= y

\* " ".join(tokens): the string a line of tokens stands for
RECURSIVE LineStr(_)
LineStr(line) ==
    IF line = << >> THEN ""
    ELSE IF Len(line) = 1 THEN line[1]
    ELSE line[1] \o " " \o LineStr(Tail(line))

\* page = [x for x in page if len(x) != 0]
NonEmptyLines(text) == SelectSeq(text, LAMBDA l : l # << >>)

----------------------------------------------------------------------------
(* Tables over tokens.                                                     *)

\* int(token): the value, or -1 where int() raises ValueError
TokInt(t) ==
    CASE t = "1" -> 1
      [] t = "2" -> 2
      [] t = "3" -> 3
      [] OTHER -> -1

\* the case-sensitive marker phrases a token contains as a substring
TokHas(t) ==
    CASE t = "SKU" -> {"SKU"}
      [] t = "SKU:" -> {"SKU"}
      [] t = "Qty" -> {"Qty"}
      [] t = "Qty:" -> {"Qty"}
      [] t = "QTY" -> {"QTY"}
      [] t = "Pickup" -> {"Pickup"}
      [] t = "Pickup:" -> {"Pickup"}
      [] t = "Size" -> {"Size"}
      [] t = "Color" -> {"Color"}
      [] t = "Sold By:" -> {"Sold By:"}
      [] t = "If undelivered, return to:" -> {"If undelivered, return to:"}
      [] t = "Destination Code" -> {"Destination Code"}
      [] t = "TAX INVOICE" -> {"TAX INVOICE"}
      [] t = "|" -> {"|"}
      [] t = "1|X" -> {"|"}
      [] OTHER -> {}

\* marker in line
LineHas(line, marker) == \E k \in 1 .. Len(line) : marker \in TokHas(line[k])

\* s.strip() of the strings the extractors produce
Strip(s) ==
    CASE s = "ABC123 " -> "ABC123"
      [] s = "abc123 " -> "abc123"
      [] s = "XYZ9 " -> "XYZ9"
      [] s = " " -> ""
      [] OTHER -> s

\* s.lower()
Lower(s) ==
    CASE s = "ABC123" -> "abc123"
      [] s = "XYZ9" -> "xyz9"
      [] s = "Delhivery" -> "delhivery"
      [] s = "Ekart" -> "ekart"
      [] s = "C" -> "c"
      [] s = "SellerA" -> "sellera"
      [] s = "SellerB" -> "sellerb"
      [] OTHER -> s

\* the order of Python's str comparison over the strings the sort keys take,
\* as the rank of each string
StrRank(s) ==
    CASE s = "" -> 0
      [] s = "0" -> 1
      [] s = "ABC123" -> 2
      [] s = "Delhivery" -> 3
      [] s = "Ekart" -> 4
      [] s = "SellerA" -> 5
      [] s = "SellerB" -> 6
      [] s = "ShopA" -> 7
      [] s = "ShopB" -> 8
      [] s = "XYZ9" -> 9
      [] s = "abc123" -> 10
      [] s = "delhivery" -> 11
      [] s = "ekart" -> 12
      [] s = "valmo" -> 13
      [] s = "xyz9" -> 14
      [] OTHER -> 15

----------------------------------------------------------------------------
(* MeshooCropper/utils.py: the field extractors.                           *)

\* [x for x in range(len(page)) if marker in page[x]][0]; -1 where the list
\* is empty and [0] raises IndexError
FirstIdx(lines, marker) ==
    LET hits == Indices(lines, LAMBDA l : LineHas(l, marker))
    IN  IF hits = {} THEN -1 ELSE Min(hits)

\* int(line): the value, or -1 where int() raises ValueError
LineInt(line) == IF Len(line) = 1 THEN TokInt(line[1]) ELSE -1

\* line.replace(marker, "")
LineReplace(line, marker) == LineStr(SelectSeq(line, LAMBDA t : t # marker))

\* the value quantity_extract returns when it catches an exception: the
\* bare integer 0, not a pair
QtyBare == [tuple |-> FALSE]

Meshoo_quantity_extract(page) ==
    LET qty_idx == FirstIdx(page, "Qty")
    IN  IF qty_idx < 0 THEN QtyBare
        ELSE IF ~InRange(page, qty_idx + 2) THEN QtyBare
        ELSE IF LineInt(At(page, qty_idx + 1)) < 0 THEN QtyBare
        ELSE [tuple |-> TRUE,
              qty |-> LineInt(At(page, qty_idx + 1)),
              multi |-> (At(page, qty_idx + 2) # << >>)
                          \/ LineInt(At(page, qty_idx + 1)) # 1]

\* the integer 0 sku_extract returns on an exception, as astype(str) renders
\* it; before that the code only compares it with ""
Meshoo_sku_extract(page) ==
    LET qty_idx == FirstIdx(page, "SKU")
    IN  IF qty_idx < 0 \/ ~InRange(page, qty_idx + 1) THEN "0"
        ELSE Strip(LineStr(At(page, qty_idx + 1)))

\* courier.lower() in ["c", "lsh-r0", "lhs-r0", ""] -> "valmo"
NormalizeCourier(courier) ==
    IF Lower(courier) \in {"c", "lsh-r0", "lhs-r0", ""} THEN "valmo"
    ELSE Lower(courier)

Meshoo_courier_extract(text) ==
    LET page == NonEmptyLines(text)
        courier_idx == FirstIdx(page, "Pickup")
        dest == \E i \in 1 .. Len(page) : page[i] = << "Destination Code" >>
        \* page[courier_idx - 1] with courier_idx = 0 is page[-1], the last line
        at == IF ~dest THEN courier_idx + 1
              ELSE IF courier_idx = 0 THEN Len(page) - 1
              ELSE courier_idx - 1
    IN  IF courier_idx < 0 \/ ~InRange(page, at) THEN ""
        ELSE NormalizeCourier(Strip(LineReplace(At(page, at), "Pickup")))

\* soldBy_extract, size_extract, color_extract: the line after the marker,
\* among the non-empty lines
Meshoo_next_line(text, marker) ==
    LET page == NonEmptyLines(text)
        courier_idx == FirstIdx(page, marker)
    IN  IF courier_idx < 0 \/ ~InRange(page, courier_idx + 1) THEN ""
        ELSE LineStr(At(page, courier_idx + 1))

Meshoo_soldBy_extract(text) == Meshoo_next_line(text, "If undelivered, return to:")
Meshoo_size_extract(text) == Meshoo_next_line(text, "Size")
Meshoo_color_extract(text) == Meshoo_next_line(text, "Color")

----------------------------------------------------------------------------
(* FlipkartCropper/utils.py: the field extractors.                         *)

\* the keywords token.upper() contains as a substring
TokHasUpper(t) ==
    CASE t = "SKU" -> {"SKU"}
      [] t = "SKU:" -> {"SKU"}
      [] t = "Qty" -> {"QTY"}
      [] t = "Qty:" -> {"QTY"}
      [] t = "QTY" -> {"QTY"}
      [] t = "Sold By:" -> {"SOLD BY"}
      [] t = "Size" -> {"SIZE"}
      [] t = "Color" -> {"COLOR"}
      [] OTHER -> {}

\* keyword in line.upper()
LineHasUpper(line, keyword) ==
    \E k \in 1 .. Len(line) : keyword \in TokHasUpper(line[k])

\* line.strip().isdigit()
LineIsDigit(line) == Len(line) = 1 /\ TokInt(line[1]) >= 0

\* line[0].isnumeric(): the first character of the line is a digit
LineStartsNumeric(line) ==
    line # << >> /\ line[1] \in {"1", "2", "3", "1|X"}

\* the loop over lines[qty_start + 1:]: the digit lines up to the first line
\* that holds one of the section keywords
RECURSIVE QtyScan(_, _)
QtyScan(lines, i) ==
    IF ~InRange(lines, i) THEN << >>
    ELSE IF \E kw \in {"SKU", "SOLD BY", "COLOR", "SIZE"} :
                LineHasUpper(At(lines, i), kw) THEN << >>
    ELSE IF LineIsDigit(At(lines, i))
         THEN << LineInt(At(lines, i)) >> \o QtyScan(lines, i + 1)
    ELSE QtyScan(lines, i + 1)

RECURSIVE SumSeq(_)
SumSeq(s) == IF s = << >> THEN 0 ELSE s[1] + SumSeq(Tail(s))

Flipkart_quantity_extract(lines) ==
    LET starts == Indices(lines, LAMBDA l : LineHasUpper(l, "QTY"))
        qtys == QtyScan(lines, Min(starts) + 1)
    IN  IF starts = {} THEN [tuple |-> TRUE, qty |-> 1, multi |-> FALSE]
        ELSE [tuple |-> TRUE,
              qty |-> IF qtys # << >> THEN SumSeq(qtys) ELSE 1,
              multi |-> Len(qtys) > 1]

Flipkart_courier_extract(page) ==
    IF ~InRange(page, 2) THEN "" ELSE Strip(LineStr(At(page, 2)))

\* rest.split("|", 1)[0] for the tokens after the first blank of the line:
\* what stands before the first "|", with the blank that precedes the bar
RECURSIVE BeforeBar(_)
BeforeBar(tokens) ==
    IF tokens = << >> THEN ""
    ELSE IF tokens[1] = "|" THEN ""
    ELSE IF Len(tokens) = 1 THEN tokens[1]
    ELSE tokens[1] \o " " \o BeforeBar(Tail(tokens))

\* sku_extract raises IndexError (sku[1]) when the first SKU line holds no
\* blank: [raised |-> TRUE]
Flipkart_sku_extract(page) ==
    LET all_pipe == SelectSeq(page, LAMBDA x : LineHas(x, "|"))
        skus == SelectSeq(all_pipe, LineStartsNumeric)
    IN  IF skus = << >> THEN [raised |-> FALSE, sku |-> "", multi |-> FALSE]
        ELSE IF Len(skus[1]) < 2 THEN [raised |-> TRUE]
        ELSE [raised |-> FALSE,
              sku |-> BeforeBar(Tail(skus[1])),
              multi |-> Len(skus) > 1]

\* s.split(",", 1)[0] of a token
TokBeforeComma(t) ==
    CASE t = "SellerA," -> "SellerA"
      [] t = "SellerB," -> "SellerB"
      [] OTHER -> t

TokHasComma(t) == t \in {"SellerA,", "SellerB,"}

RECURSIVE BeforeComma(_)
BeforeComma(tokens) ==
    IF tokens = << >> THEN ""
    ELSE IF TokHasComma(tokens[1]) \/ Len(tokens) = 1
         THEN TokBeforeComma(tokens[1])
    ELSE tokens[1] \o " " \o BeforeComma(Tail(tokens))

Flipkart_soldBy_extract(page) ==
    LET soldby_idx == FirstIdx(page, "Sold By:")
    IN  IF soldby_idx < 0 THEN ""
        ELSE BeforeComma(SelectSeq(At(page, soldby_idx),
                                   LAMBDA t : t # "Sold By:"))

\* extract_data.process_page: the row and whether the page is an error page;
\* row |-> << >> stands for None
Flipkart_process_page(idx, page) ==
    LET s == Flipkart_sku_extract(page)
        q == Flipkart_quantity_extract(page)
    IN  IF s.raised THEN [row |-> << >>, error |-> TRUE]
        ELSE [row |-> << [page |-> idx, sku |-> s.sku, qty |-> q.qty,
                          multi |-> (s.multi \/ q.multi \/ q.qty > 1),
                          courier |-> Flipkart_courier_extract(page),
                          soldBy |-> Flipkart_soldBy_extract(page)] >>,
              error |-> (s.sku = "")]

----------------------------------------------------------------------------
(* JioMartCropper/utils.py: the field extractors.  They search the page    *)
(* with regular expressions, "<Label>[:\s]*(<class>+)" under IGNORECASE,   *)
(* where \s also matches a line break: the search runs over the tokens of  *)
(* all lines.  In the fixture pages a label stands in a token of its own,  *)
(* with or without its colon.                                              *)

RECURSIVE Flatten(_)
Flatten(text) == IF text = << >> THEN << >> ELSE text[1] \o Flatten(Tail(text))

\* the labels token.lower() holds, each followed in the token by [:]* only
TokLabels(t) ==
    CASE t \in {"SKU", "SKU:"} -> {"sku"}
      [] t \in {"Qty", "Qty:", "QTY"} -> {"qty"}
      [] t = "Courier:" -> {"courier"}
      [] t \in {"Pickup", "Pickup:"} -> {"pickup"}
      [] t = "Sold By:" -> {"sold by"}
      [] t = "If undelivered, return to:" -> {"if undelivered, return to:"}
      [] OTHER -> {}

\* the longest prefix of the token in [A-Za-z0-9\-]
AlnumPrefix(t) ==
    CASE t \in {"SKU:", "Qty:", "Courier:", "Pickup:"} ->
             CASE t = "SKU:" -> "SKU" [] t = "Qty:" -> "Qty"
               [] t = "Courier:" -> "Courier" [] OTHER -> "Pickup"
      [] t = "Sold By:" -> "Sold"
      [] t = "If undelivered, return to:" -> "If"
      [] t = "TAX INVOICE" -> "TAX"
      [] t = "Destination Code" -> "Destination"
      [] t = "SellerA," -> "SellerA"
      [] t = "SellerB," -> "SellerB"
      [] t = "1|X" -> "1"
      [] t = "|" -> ""
      [] OTHER -> t

\* the longest prefix of the token in [0-9], as a number; -1 where empty
DigitPrefix(t) ==
    CASE t = "1|X" -> 1
      [] t = "560001" -> 560001
      [] OTHER -> TokInt(t)

\* the longest prefix of the token in [A-Za-z]
AlphaPrefix(t) ==
    CASE t \in {"ABC123", "abc123", "XYZ9"} ->
             CASE t = "ABC123" -> "ABC" [] t = "abc123" -> "abc" [] OTHER -> "XYZ"
      [] t \in {"1", "2", "3", "560001", "1|X", "|"} -> ""
      [] OTHER -> AlnumPrefix(t)

TokIsAlpha(t) == t # "" /\ AlphaPrefix(t) = t

\* what ([A-Za-z\s]+) takes from the tokens that follow a label: the run of
\* alphabetic tokens and the alphabetic prefix of the token that ends it
RECURSIVE AlphaRun(_)
AlphaRun(tokens) ==
    IF tokens = << >> THEN << >>
    ELSE IF TokIsAlpha(tokens[1]) THEN << tokens[1] >> \o AlphaRun(Tail(tokens))
    ELSE IF AlphaPrefix(tokens[1]) # "" THEN << AlphaPrefix(tokens[1]) >>
    ELSE << >>

\* re.search(label + "[:\s]*(...)", page): the capture at the leftmost
\* label the group can follow.  cls is "alnum", "digits" or "alpha".
RegexCapture(tokens, label, cls) ==
    LET ok(k) == /\ label \in TokLabels(tokens[k])
                 /\ k < Len(tokens)
                 /\ CASE cls = "alnum" -> AlnumPrefix(tokens[k + 1]) # ""
                      [] cls = "digits" -> DigitPrefix(tokens[k + 1]) >= 0
                      [] OTHER -> TRUE
        hits == { k \in 1 .. Len(tokens) : ok(k) }
        k0 == Min(hits)
    IN  IF hits = {} THEN [match |-> FALSE]
        ELSE [match |-> TRUE,
              group |-> CASE cls = "alnum" -> AlnumPrefix(tokens[k0 + 1])
                          [] cls = "digits" -> DigitPrefix(tokens[k0 + 1])
                          [] OTHER ->
                              LineStr(AlphaRun(SubSeq(tokens, k0 + 1, Len(tokens))))]

\* re.findall(r'\d+', token)[0]: the first run of digits in the token
TokFirstNumber(t) ==
    CASE t \in {"ABC123", "abc123"} -> 123
      [] t = "XYZ9" -> 9
      [] OTHER -> DigitPrefix(t)

\* re.findall(r'[A-Za-z0-9\-]{5,}', token): the token's run of 5 or more
TokCode(t) == IF t \in {"1", "2", "3", "|", "1|X", "XYZ9", "Qty:", "SKU:", "Qty",
                        "SKU", "QTY", "Size", "C", "Sold By:", "Color:"}
              THEN "" ELSE AlnumPrefix(t)

\* the first value f gives a token of the line, none where all are none
FirstOf(line, f(_), none) ==
    LET hits == { k \in 1 .. Len(line) : f(line[k]) # none }
    IN  IF hits = {} THEN none ELSE f(line[Min(hits)])

\* the lines of page.split('\n') that hold the label, lower-cased
LabelLines(page, label) ==
    Indices(page, LAMBDA l : \E k \in 1 .. Len(l) : label \in TokLabels(l[k]))

JioMart_quantity_extract(page) ==
    LET m == RegexCapture(Flatten(page), "qty", "digits")
        \* the loop returns at the first "qty" line that holds a number, or
        \* whose next line does
        num(i) == IF FirstOf(At(page, i), TokFirstNumber, -1) >= 0
                  THEN FirstOf(At(page, i), TokFirstNumber, -1)
                  ELSE IF i + 1 < Len(page)
                       THEN FirstOf(At(page, i + 1), TokFirstNumber, -1)
                  ELSE -1
        found == { i \in LabelLines(page, "qty") : num(i) >= 0 }
        qty == IF m.match THEN m.group
               ELSE IF found # {} THEN num(Min(found))
               ELSE 1
    IN  [tuple |-> TRUE, qty |-> qty,
         multi |-> IF m.match \/ found # {} THEN qty > 1 ELSE FALSE]

JioMart_sku_extract(page) ==
    LET m == RegexCapture(Flatten(page), "sku", "alnum")
        code(i) == IF FirstOf(At(page, i), TokCode, "") # ""
                   THEN FirstOf(At(page, i), TokCode, "")
                   ELSE IF i + 1 < Len(page)
                        THEN FirstOf(At(page, i + 1), TokCode, "")
                   ELSE ""
        found == { i \in LabelLines(page, "sku") : code(i) # "" }
    IN  IF m.match THEN Strip(m.group)
        ELSE IF found # {} THEN code(Min(found))
        ELSE ""

\* the courier names looked for in page.lower() when no pattern matches, in
\* the order of courier_keywords
TokCourierKeyword(t) ==
    CASE t = "Delhivery" -> "delhivery"
      [] t = "Ekart" -> "ekart"
      [] OTHER -> ""

JioMart_courier_extract(page) ==
    LET tokens == Flatten(page)
        c == RegexCapture(tokens, "courier", "alpha")
        p == RegexCapture(tokens, "pickup", "alpha")
        names == { TokCourierKeyword(tokens[k]) : k \in 1 .. Len(tokens) } \ {""}
    IN  IF c.match THEN NormalizeCourier(Strip(c.group))
        ELSE IF p.match THEN NormalizeCourier(Strip(p.group))
        ELSE IF "delhivery" \in names THEN "delhivery"
        ELSE IF "ekart" \in names THEN "ekart"
        ELSE ""

JioMart_soldBy_extract(page) ==
    LET tokens == Flatten(page)
        m == RegexCapture(tokens, "sold by", "alpha")
        \* "If undelivered, return to:[:\s]*([^\n]+)": the rest of the line
        lines == LabelLines(page, "if undelivered, return to:")
        line == At(page, Min(lines))
        at == Min({ k \in 1 .. Len(line) :
                      "if undelivered, return to:" \in TokLabels(line[k]) })
    IN  IF m.match THEN Strip(m.group)
        ELSE IF lines # {} /\ at < Len(line)
             THEN Strip(LineStr(SubSeq(line, at + 1, Len(line))))
        ELSE ""

----------------------------------------------------------------------------
(* The fixture pages.  A page is named by its kind; its text layer and its *)
(* geometry are tables over the kinds.  An input file is a one-page PDF of *)
(* one of the kinds of the tool's marketplace, or a file that is no PDF.   *)

MeshooKinds == {"m_multi", "m_single", "m_blank", "m_nosku", "m_noqty", "m_top",
                "m_badtext", "m_payfirst"}
FlipkartKinds == {"f_multi", "f_single", "f_nosku", "f_nospace", "f_narrow",
                  "f_badtext", "f_twosku"}
JioMartKinds == {"j_multi", "j_single", "j_nosku", "j_empty", "j_corrupt",
                 "j_badtext"}
\* a file named *.pdf that does not begin with the bytes "%PDF"
NotPdf == "x_notpdf"

Kinds(v) ==
    {NotPdf} \cup (CASE v = "Meshoo" -> MeshooKinds
                   [] v = "Flipkart" -> FlipkartKinds
                   [] OTHER -> JioMartKinds)

\* reading the text of this page raises (a content stream the text
\* extractor cannot interpret)
TextRaises(kind) == kind \in {"m_badtext", "f_badtext", "j_badtext"}

MeshooText(sku_lines, qty_lines, courier, seller) ==
    << << "If undelivered, return to:" >>, << seller >>, << >>,
       << "Pickup" >>, << courier >>, << >> >>
    \o sku_lines \o qty_lines
    \o << << "TAX INVOICE" >>, << "for online payments (as applicable)" >> >>

FlipkartText(courier, seller, sku_lines, qty_lines) ==
    << << "STD" >>, << "Flipkart" >>, << courier >>,
       << "Sold By:", seller, "Pune" >>,
       << "SKU", "ID", "|", "Description" >>, << "QTY" >> >>
    \o sku_lines \o qty_lines \o << << "TAX INVOICE" >> >>

JioMartText(courier, sku_lines, qty, seller) ==
    << << "Courier:", courier >>, << "560001" >> >> \o sku_lines
    \o << << "Qty:", qty >>, << "Sold By:", seller >>, << "560001" >> >>

\* the text layer of a page, as get_text("text") / pdfminer give it
PageText(kind) ==
    CASE kind = "m_multi" ->
             MeshooText(<< << "SKU" >>, << "ABC123" >>, << >> >>,
                        << << "Qty" >>, << "2" >>, << >> >>, "Delhivery", "SellerA")
      [] kind \in {"m_single", "m_payfirst"} ->
             MeshooText(<< << "SKU" >>, << "ABC123" >>, << >> >>,
                        << << "Qty" >>, << "1" >>, << >> >>, "Ekart", "SellerB")
      [] kind = "m_top" ->
             MeshooText(<< << "SKU" >>, << "ABC123" >>, << >> >>,
                        << << "Qty" >>, << "1" >>, << >> >>, "lhs-r0", "SellerB")
      [] kind = "m_blank" ->
             MeshooText(<< << "SKU" >>, << >>, << "ABC123" >>, << >> >>,
                        << << "Qty" >>, << "1" >>, << >> >>, "Delhivery", "SellerA")
      [] kind = "m_nosku" ->
             MeshooText(<< >>,
                        << << "Qty" >>, << "1" >>, << >> >>, "Delhivery", "SellerA")
      [] kind = "m_noqty" ->
             MeshooText(<< << "SKU" >>, << "XYZ9" >>, << >> >>,
                        << >>, "C", "SellerB")
      [] kind = "f_multi" ->
             FlipkartText("Delhivery", "SellerA,",
                          << << "1", "ABC123", "|", "Shirt" >> >>, << << "2" >> >>)
      [] kind = "f_single" ->
             FlipkartText("Ekart", "SellerB,",
                          << << "1", "ABC123", "|", "Shirt" >> >>, << << "1" >> >>)
      \* a 4x6 inch label sheet: the same label, no invoice heading below it
      [] kind = "f_narrow" ->
             LET t == FlipkartText("Ekart", "SellerB,",
                                   << << "1", "ABC123", "|", "Shirt" >> >>,
                                   << << "1" >> >>)
             IN  SubSeq(t, 1, Len(t) - 1)
      [] kind = "f_twosku" ->
             FlipkartText("Delhivery", "SellerA,",
                          << << "1", "ABC123", "|", "Shirt" >>,
                             << "2", "XYZ9", "|", "Shirt" >> >>, << << "1" >> >>)
      [] kind = "f_nosku" ->
             FlipkartText("Delhivery", "SellerA,", << >>, << << "1" >> >>)
      [] kind = "f_nospace" ->
             FlipkartText("Ekart", "SellerB,", << << "1|X" >> >>, << << "1" >> >>)
      \* this page prints the size and the color, each under its heading
      [] kind = "j_multi" ->
             JioMartText("Delhivery",
                         << << "SKU:", "ABC123" >>, << "Size" >>, << "M" >>,
                            << "Color" >>, << "Red" >> >>, "2", "ShopA")
      [] kind \in {"j_single", "j_corrupt"} ->
             JioMartText("Ekart", << << "SKU:", "ABC123" >> >>, "1", "ShopB")
      [] kind = "j_nosku" ->
             JioMartText("Delhivery", << >>, "1", "ShopA")
      [] OTHER -> << << >> >>

----------------------------------------------------------------------------
(* Documents.  A page of a merged document is [f, i, kind]: the folder it  *)
(* came from, its page index in the merged document and its fixture kind.  *)
(* A page of a cropped document also says what of the source page it       *)
(* shows: box is "label", "invoice", "combined", "blank" (a new page on    *)
(* which nothing was drawn) or "full" (an uncropped copy), and via is      *)
(* "crop", "partial" (left behind by a crop that raised) or "fallback".    *)

NoFile == [exists |-> FALSE, pages |-> << >>]
File(pages) == [exists |-> TRUE, pages |-> pages]

\* a document an earlier run left in temp/output.pdf
StaleDoc == << [f |-> 0, i |-> 0, kind |-> "m_single"] >>

\* header == b"%PDF"
HasPdfSignature(kind) == kind # NotPdf

\* check_input_file.  FlipkartCropper and JioMartCropper keep the files that
\* begin with "%PDF"; MeshooCropper returns every entry of the folder.
check_input_file(v, files) ==
    IF v = "Meshoo" THEN files ELSE SelectSeq(files, HasPdfSignature)

\* PdfReader(path) raises on a file that is no PDF
PdfReaderRaises(paths) == \E k \in 1 .. Len(paths) : ~HasPdfSignature(paths[k])

\* pdf_merger: the pages of all files, in list order
pdf_merger(f, paths) ==
    [k \in 1 .. Len(paths) |-> [f |-> f, i |-> k - 1, kind |-> paths[k]]]

\* a conversion that returns the text of every page as it is
page_text_keepLines(v, page) == PageText(page.kind)

\* the text of one page.  FlipkartCropper and MeshooCropper return it as it
\* is; JioMartCropper first replaces every run of whitespace, line breaks
\* included, by one blank, which leaves a single line.
page_text(v, page) ==
    IF v = "JioMart" THEN << Flatten(PageText(page.kind)) >>
    ELSE PageText(page.kind)

\* the pages before the first one whose text cannot be read
RECURSIVE ReadablePrefix(_)
ReadablePrefix(doc) ==
    IF doc = << >> \/ TextRaises(Head(doc).kind) THEN << >>
    ELSE << Head(doc) >> \o ReadablePrefix(Tail(doc))

\* convert_pdf_to_string of MeshooCropper and JioMartCropper: the pages are
\* read one after the other.  MeshooCropper lets the exception of a page
\* out; JioMartCropper catches it around the whole loop and returns the
\* texts it has appended so far.
convert_raises(v, doc) ==
    v = "Meshoo" /\ \E k \in 1 .. Len(doc) : TextRaises(doc[k].kind)

convert_pdf_to_string(v, doc) ==
    LET read == IF v = "JioMart" THEN ReadablePrefix(doc) ELSE doc
    IN  [k \in 1 .. Len(read) |-> page_text(v, read[k])]

\* FlipkartCropper: all_page = [None] * len(doc)
None == << << "None" >> >>
NoneList(n) == [k \in 1 .. n |-> None]
\* a store at the first slot still unset, as list.append would fill the list
StoreText_inCompletionOrder(texts, idx, text) ==
    LET unset == { k \in 1 .. Len(texts) : texts[k] = None }
    IN  IF unset = {} THEN texts
        ELSE [texts EXCEPT ![CHOOSE k \in unset : \A j \in unset : k <= j] = text]

\* all_page[idx] = future.result()
StoreText(texts, idx, text) == [texts EXCEPT ![idx + 1] = text]

----------------------------------------------------------------------------
(* extract_data.                                                           *)

\* JioMartCropper's size_extract and color_extract: the page is split at
\* its line breaks and the line after the first one with the marker is
\* returned, "" where [0] or [courier_idx + 1] raises IndexError
JioMart_size_extract(text) ==
    LET page == NonEmptyLines(text)
        courier_idx == FirstIdx(page, "Size")
    IN  IF courier_idx < 0 \/ ~InRange(page, courier_idx + 1) THEN ""
        ELSE LineStr(At(page, courier_idx + 1))

JioMart_color_extract(text) ==
    LET page == NonEmptyLines(text)
        courier_idx == FirstIdx(page, "Color")
    IN  IF courier_idx < 0 \/ ~InRange(page, courier_idx + 1) THEN ""
        ELSE LineStr(At(page, courier_idx + 1))

\* MeshooCropper, JioMartCropper: the body of the loop for one page.  A row
\* is appended unless the body raises; the page index is appended to
\* error_pages when sku == "", before anything can raise.
Sequential_row(v, idx, page) ==
    LET sku == IF v = "Meshoo" THEN Meshoo_sku_extract(page)
               ELSE JioMart_sku_extract(page)
        q == IF v = "Meshoo" THEN Meshoo_quantity_extract(page)
             ELSE JioMart_quantity_extract(page)
    IN  [error |-> (sku = ""),
         \* qty, mqty = quantity_extract(page) raises TypeError on the bare 0
         row |-> IF ~q.tuple THEN << >>
                 ELSE << [page |-> idx, sku |-> sku, qty |-> q.qty,
                          multi |-> q.multi,
                          courier |-> IF v = "Meshoo"
                                      THEN Meshoo_courier_extract(page)
                                      ELSE JioMart_courier_extract(page),
                          soldBy |-> IF v = "Meshoo"
                                     THEN Meshoo_soldBy_extract(page)
                                     ELSE JioMart_soldBy_extract(page),
                          size |-> IF v = "Meshoo" THEN Meshoo_size_extract(page)
                                   ELSE JioMart_size_extract(page),
                          color |-> IF v = "Meshoo"
                                    THEN Meshoo_color_extract(page)
                                    ELSE JioMart_color_extract(page)] >>]

\* the rows and the error pages of the pages idx .. len(text) - 1
RECURSIVE Sequential_rows(_, _, _)
Sequential_rows(v, text, idx) ==
    IF idx >= Len(text) THEN << >>
    ELSE Sequential_row(v, idx, At(text, idx)).row
         \o Sequential_rows(v, text, idx + 1)

RECURSIVE Sequential_errors(_, _, _)
Sequential_errors(v, text, idx) ==
    IF idx >= Len(text) THEN << >>
    ELSE (IF Sequential_row(v, idx, At(text, idx)).error THEN << idx >> ELSE << >>)
         \o Sequential_errors(v, text, idx + 1)

\* writer.addpage(reader_input.pages[page]) for page in error_pages
ErrorDoc(doc, pages) == [k \in 1 .. Len(pages) |-> At(doc, pages[k])]

----------------------------------------------------------------------------
(* process_folder: cleaning and sorting the record table.                  *)

\* df[col] = df[col].str.strip() for sku, courier and soldBy
CleanRow(r) ==
    [r EXCEPT !.sku = Strip(r.sku), !.courier = Strip(r.courier),
              !.soldBy = Strip(r.soldBy)]

CleanTable(rows) == [k \in 1 .. Len(rows) |-> CleanRow(rows[k])]

\* a key to which "courier" is appended whatever the toggle says
SortKey_courierAlways(v, cfg, r) ==
    << IF r.multi THEN 1 ELSE 0 >>
    \o (IF cfg.sku_sort
        THEN << IF v = "JioMart" THEN StrRank(Lower(r.sku))
                ELSE 0 - StrRank(Lower(r.sku)) >>
        ELSE << >>)
    \o << StrRank(r.courier) >>
    \o (IF cfg.soldBy_sort THEN << StrRank(r.soldBy) >> ELSE << >>)

\* sort_list and ascending_list, as the tuple a row is ranked by: "multi"
\* ascending, then per toggle sku_lower (descending in FlipkartCropper and
\* MeshooCropper, ascending in JioMartCropper), courier and soldBy ascending
SortKey(v, cfg, r) ==
    << IF r.multi THEN 1 ELSE 0 >>
    \o (IF cfg.sku_sort
        THEN << IF v = "JioMart" THEN StrRank(Lower(r.sku))
                ELSE 0 - StrRank(Lower(r.sku)) >>
        ELSE << >>)
    \o (IF cfg.courier_sort THEN << StrRank(r.courier) >> ELSE << >>)
    \o (IF cfg.soldBy_sort THEN << StrRank(r.soldBy) >> ELSE << >>)

\* tuples of equal length, compared as Python compares them
RECURSIVE TupleLess(_, _)
TupleLess(a, b) ==
    /\ a # << >>
    /\ \/ a[1] < b[1]
       \/ a[1] = b[1] /\ TupleLess(Tail(a), Tail(b))

\* a stable sort: each row goes behind the rows that do not rank above it
RECURSIVE InsertRow(_, _, _, _)
InsertRow(v, cfg, r, done) ==
    IF done = << >> THEN << r >>
    ELSE IF TupleLess(SortKey(v, cfg, r), SortKey(v, cfg, done[Len(done)]))
         THEN InsertRow(v, cfg, r, SubSeq(done, 1, Len(done) - 1))
              \o << done[Len(done)] >>
    ELSE done \o << r >>

RECURSIVE StableSort(_, _, _)
StableSort(v, cfg, rows) ==
    IF rows = << >> THEN << >>
    ELSE InsertRow(v, cfg, rows[Len(rows)],
                   StableSort(v, cfg, SubSeq(rows, 1, Len(rows) - 1)))

IndexPerms(n) ==
    { p \in [1 .. n -> 1 .. n] : \A i, j \in 1 .. n : p[i] = p[j] => i = j }

\* numpy's "quicksort" sorts an array of at most 16 elements by insertion,
\* which keeps equal elements in their order
SortsByInsertion(rows) == Len(rows) <= 16

\* df.sort_values(by=sort_list, ascending=ascending_list): the tables it can
\* return.  With two or more columns pandas sorts with a stable
\* lexicographic sort.  With the one column "multi" it sorts with numpy's
\* default kind, "quicksort", which on longer arrays keeps no order among
\* equal rows.
sort_values(v, cfg, rows) ==
    IF cfg.sku_sort \/ cfg.courier_sort \/ cfg.soldBy_sort \/ SortsByInsertion(rows)
    THEN { StableSort(v, cfg, rows) }
    ELSE { [k \in 1 .. Len(rows) |-> rows[p[k]]] :
             p \in { q \in IndexPerms(Len(rows)) :
                       \A k \in 1 .. Len(rows) - 1 :
                          ~TupleLess(SortKey(v, cfg, rows[q[k + 1]]),
                                     SortKey(v, cfg, rows[q[k]])) } }

\* ReorderPages with the pages taken in the order of the merged document
ReorderPages_inDocOrder(doc, rows) == [k \in 1 .. Len(rows) |-> doc[k]]

\* writer_output.addpage(reader_input.pages[page]) for page in df.page.values
ReorderPages(doc, rows) == [k \in 1 .. Len(rows) |-> At(doc, rows[k].page)]

----------------------------------------------------------------------------
(* Page geometry, in PDF points from the top-left corner.  -1 stands for   *)
(* "search_for found nothing".                                             *)

PageW(kind) == IF kind = "f_narrow" THEN 288 ELSE 595
PageH(kind) == IF kind = "f_narrow" THEN 432 ELSE 842

\* search_for("TAX INVOICE")[0].y0; the heading is 12 points high
TaxY0(kind) ==
    CASE kind = "m_top" -> 1
      [] kind = "f_narrow" -> -1
      [] kind \in FlipkartKinds -> 480
      [] kind \in MeshooKinds -> 400
      [] OTHER -> -1

\* search_for("for online payments (as applicable)")[0].y0
\* on m_payfirst the payments line is printed above the invoice heading
PayY0(kind) ==
    CASE kind = "m_payfirst" -> 300
      [] kind \in MeshooKinds -> 700
      [] OTHER -> -1

\* get_pixmap raises on this page
RenderRaises(kind) == kind = "j_corrupt"
\* cv2.findNonZero finds no dark pixel: coords is None
NoContent(kind) == kind = "j_empty"

Rect(x0, y0, x1, y1) == [x0 |-> x0, y0 |-> y0, x1 |-> x1, y1 |-> y1]
RectHeight(r) == r.y1 - r.y0
RectWidth(r) == r.x1 - r.x0
RectIsEmpty(r) == r.x1 <= r.x0 \/ r.y1 <= r.y0
RectInside(r, w, h) == 0 <= r.x0 /\ r.x1 <= w /\ 0 <= r.y0 /\ r.y1 <= h
Max(a, b) == IF a >= b THEN a ELSE b
Min2(a, b) == IF a <= b THEN a ELSE b

\* Page.set_cropbox(rect) raises ValueError for an empty rectangle and for
\* one that is not inside the page
SetCropboxRaises(r, w, h) == RectIsEmpty(r) \/ ~RectInside(r, w, h)

\* Page.show_pdf_page(rect, src, pno, clip) raises ValueError when the target
\* rectangle or the clip, cut to the source page, is empty
ShowPdfPageRaises(target, clip, w, h) ==
    \/ RectIsEmpty(target)
    \/ RectIsEmpty(Rect(Max(clip.x0, 0), Max(clip.y0, 0),
                        Min2(clip.x1, w), Min2(clip.y1, h)))

OutPage(p, box, via) ==
    [f |-> p.f, i |-> p.i, kind |-> p.kind, box |-> box, via |-> via]

----------------------------------------------------------------------------
(* FlipkartCropper/utils.py: pdf_cropper, one page of the loop.            *)

label_left_margin == 185
label_top_margin == 15
\* invoice_top_ratio, 0.58, in percent
invoice_top_ratio == 58

\* _find_invoice_y: the first heading below 30% of the page height, else the
\* first heading, else None; a fixture page holds at most one heading
find_invoice_y(kind) == TaxY0(kind)

Flipkart_invoice_y_top(kind) ==
    LET H == PageH(kind)
        found == find_invoice_y(kind)
        y == IF found >= 0 THEN found ELSE (H * invoice_top_ratio) \div 100
    IN  Max(30, Min2(y, H - 30))

Flipkart_label_rect(kind) ==
    LET W == PageW(kind)
        H == PageH(kind)
        label_bottom == Max(label_top_margin + 10, Flipkart_invoice_y_top(kind) - 12)
        r == Rect(label_left_margin, label_top_margin, W - label_left_margin,
                  label_bottom)
    IN  IF RectHeight(r) <= 20 \/ RectWidth(r) <= 20
        THEN Rect(label_left_margin, label_top_margin, W - label_left_margin,
                  H \div 2)
        ELSE r

Flipkart_invoice_rect(kind) ==
    Rect(0, Max(0, Flipkart_invoice_y_top(kind) - 10), PageW(kind), PageH(kind))

\* the pages one pass of the loop adds to result.  insert_pdf adds a copy of
\* the page, set_cropbox then crops it or raises; the except branch adds one
\* more copy of the page.
Flipkart_crop_page(p, cfg) ==
    LET W == PageW(p.kind)
        H == PageH(p.kind)
        label_bad == SetCropboxRaises(Flipkart_label_rect(p.kind), W, H)
        invoice_bad == SetCropboxRaises(Flipkart_invoice_rect(p.kind), W, H)
    IN  IF label_bad
        THEN << OutPage(p, "full", "partial"), OutPage(p, "full", "fallback") >>
        ELSE IF ~cfg.keep_invoice
        THEN << OutPage(p, "label", "crop") >>
        ELSE IF invoice_bad
        THEN << OutPage(p, "label", "crop"), OutPage(p, "full", "partial"),
                OutPage(p, "full", "fallback") >>
        ELSE << OutPage(p, "label", "crop"), OutPage(p, "invoice", "crop") >>

----------------------------------------------------------------------------
(* MeshooCropper/utils.py: pdf_whitespace and pdf_cropper.                 *)

\* pdf_whitespace: where the payments line is found the page is cropped to
\* Rect(0, 0, width - 8, y0 + 20); ws records it on the page
pdf_whitespace(doc) ==
    [k \in 1 .. Len(doc) |->
        [f |-> doc[k].f, i |-> doc[k].i, kind |-> doc[k].kind,
         ws |-> PayY0(doc[k].kind) >= 0]]

\* page.rect after pdf_whitespace
CroppedW(p) == IF p.ws THEN PageW(p.kind) - 8 ELSE PageW(p.kind)
CroppedH(p) == IF p.ws THEN PayY0(p.kind) + 20 ELSE PageH(p.kind)

\* search_for(<last word of the page text>)[0].y0, -1 for a page without text
LastWordY0(kind) ==
    CASE PageText(kind) = << << >> >> -> -1
      [] kind = "m_payfirst" -> PayY0(kind)
      [] OTHER -> 780

\* search_for("TAX INVOICE")[0].y0 on the page pdf_whitespace left: a search
\* takes the text of the visible page (TEXT_MEDIABOX_CLIP is among the
\* default search flags), so a heading below the cut is not found
Meshoo_TaxY0(p) ==
    IF p.ws /\ TaxY0(p.kind) >= CroppedH(p) THEN -1 ELSE TaxY0(p.kind)

\* label_crop_rect; [raised |-> TRUE] where neither search finds anything
\* and [0] raises IndexError
Meshoo_label_crop_rect(p) ==
    IF Meshoo_TaxY0(p) >= 0
    THEN [raised |-> FALSE, rect |-> Rect(0, 0, CroppedW(p), Meshoo_TaxY0(p) - 1)]
    ELSE IF LastWordY0(p.kind) >= 0
    THEN [raised |-> FALSE,
          rect |-> Rect(0, 0, CroppedW(p), LastWordY0(p.kind) + 20)]
    ELSE [raised |-> TRUE]

\* the rectangle of a search that also finds a heading below the cut
Meshoo_invoice_crop_rect_unclipped(p) ==
    LET invoice_pos == IF TaxY0(p.kind) >= 0 THEN TaxY0(p.kind) + 12
                       ELSE CroppedH(p) \div 2
        online_payment_pos == IF PayY0(p.kind) >= 0 THEN PayY0(p.kind) + 20
                              ELSE CroppedH(p)
    IN  Rect(0, invoice_pos - 18, CroppedW(p), online_payment_pos)

Meshoo_invoice_crop_rect(p) ==
    LET invoice_pos == IF Meshoo_TaxY0(p) >= 0 THEN Meshoo_TaxY0(p) + 12
                       ELSE CroppedH(p) \div 2
        online_payment_pos == IF PayY0(p.kind) >= 0 THEN PayY0(p.kind) + 20
                              ELSE CroppedH(p)
    IN  Rect(0, invoice_pos - 18, CroppedW(p), online_payment_pos)

\* the pages one pass of the loop adds to result.  new_page adds a page,
\* show_pdf_page then draws on it or raises; the except branch adds a copy of
\* the whole page.
Meshoo_crop_page(p, cfg) ==
    LET W == CroppedW(p)
        H == CroppedH(p)
        l == Meshoo_label_crop_rect(p)
        inv == Meshoo_invoice_crop_rect(p)
        lh == RectHeight(l.rect)
        ih == inv.y1 - inv.y0
        label_bad == ShowPdfPageRaises(Rect(0, 0, W, lh), l.rect, W, H)
        fallback == << OutPage(p, "full", "fallback") >>
    IN  IF l.raised THEN fallback
        ELSE IF cfg.fourByFour
        THEN IF label_bad THEN << OutPage(p, "blank", "partial") >> \o fallback
             ELSE IF ShowPdfPageRaises(Rect(0, lh, W, lh + ih), inv, W, H)
             THEN << OutPage(p, "label", "partial") >> \o fallback
             ELSE << OutPage(p, "combined", "crop") >>
        ELSE IF label_bad THEN << OutPage(p, "blank", "partial") >> \o fallback
        ELSE IF ~cfg.keep_invoice THEN << OutPage(p, "label", "crop") >>
        ELSE IF ShowPdfPageRaises(Rect(0, 0, W, ih), inv, W, H)
        THEN << OutPage(p, "label", "crop"), OutPage(p, "blank", "partial") >>
             \o fallback
        ELSE << OutPage(p, "label", "crop"), OutPage(p, "invoice", "crop") >>

----------------------------------------------------------------------------
(* JioMartCropper/utils.py: pdf_cropper, one page of the loop.  The loop   *)
(* has no try: what a page raises leaves pdf_cropper.                      *)

JioMart_crop_raises(p) == RenderRaises(p.kind)

JioMart_crop_page(p, cfg) ==
    IF NoContent(p.kind) THEN << OutPage(p, "full", "copy") >>
    ELSE << OutPage(p, "label", "crop") >>

\* the loop of pdf_cropper over the pages of the document
RECURSIVE CropPages(_, _, _)
CropPages(v, doc, cfg) ==
    IF doc = << >> THEN << >>
    ELSE (CASE v = "Flipkart" -> Flipkart_crop_page(doc[1], cfg)
            [] v = "Meshoo" -> Meshoo_crop_page(doc[1], cfg)
            [] OTHER -> JioMart_crop_page(doc[1], cfg))
         \o CropPages(v, Tail(doc), cfg)

----------------------------------------------------------------------------
(* FlipkartCropper/utils.py, JioMartCropper/utils.py: create_count_excel.  *)
(* The sheet "Summary" holds four blocks, each a table of the distinct     *)
(* values of some columns with the number of records that carry them.      *)

Views == {"sku", "courierSold", "courier", "soldBy"}

\* df["color"] = df.get("color", ""): the column of the table, "" where the
\* table has none (FlipkartCropper's rows carry no color)
ColorOf(r) == IF "color" \in DOMAIN r THEN r.color ELSE ""

\* the columns a block is counted over
ViewKey(view, r) ==
    CASE view = "sku" -> << r.qty, r.soldBy, ColorOf(r), r.sku >>
      [] view = "courierSold" -> << r.courier, r.soldBy >>
      [] view = "courier" -> << r.courier >>
      [] OTHER -> << r.soldBy >>

\* a count that leaves out the records with an empty SKU, courier or seller
value_counts_dropEmpty(view, rows) ==
    LET kept == { i \in 1 .. Len(rows) :
                    /\ rows[i].sku # ""
                    /\ rows[i].courier # ""
                    /\ rows[i].soldBy # "" }
    IN  { [key |-> k,
           Count |-> Cardinality({ i \in kept : ViewKey(view, rows[i]) = k })] :
          k \in { ViewKey(view, rows[i]) : i \in kept } }

\* df[columns].value_counts(): one row per distinct tuple of the columns,
\* with the number of records that carry it.  dropna leaves out a record
\* with NaN or None in a column; every extractor returns a str or an int,
\* so no record is left out.
value_counts(view, rows) ==
    { [key |-> k,
       Count |-> Cardinality({ i \in 1 .. Len(rows) : ViewKey(view, rows[i]) = k })] :
      k \in { ViewKey(view, rows[i]) : i \in 1 .. Len(rows) } }

\* a ranking by the SKU before the count
ReportSortKey_skuFirst(view, row) ==
    CASE view = "sku" ->
             << StrRank(Lower(row.key[4])), 0 - row.Count, row.key[1],
                StrRank(row.key[2]), StrRank(row.key[3]), StrRank(row.key[4]) >>
      [] view = "courierSold" ->
             << 0 - row.Count, StrRank(row.key[1]), StrRank(row.key[2]) >>
      [] OTHER -> << 0 - row.Count, StrRank(row.key[1]) >>

\* sort_values(by=..., ascending=...) of a block, as the tuple a row is
\* ranked by: Count descending, SKU_lower and Qty ascending for the SKU
\* report; Packages descending, Courier (SoldBy) ascending for the others.
\* The sort is stable, rows that tie keep the order of value_counts, which
\* among equal counts is the order of the column values.
ReportSortKey(view, row) ==
    CASE view = "sku" ->
             << 0 - row.Count, StrRank(Lower(row.key[4])), row.key[1],
                StrRank(row.key[2]), StrRank(row.key[3]), StrRank(row.key[4]) >>
      [] view = "courierSold" ->
             << 0 - row.Count, StrRank(row.key[1]), StrRank(row.key[2]) >>
      [] OTHER -> << 0 - row.Count, StrRank(row.key[1]) >>

\* the rows of a block in the order of the sheet
RECURSIVE report_rows(_, _)
report_rows(view, counted) ==
    IF counted = {} THEN << >>
    ELSE LET first == CHOOSE x \in counted :
                          \A y \in counted :
                              ~TupleLess(ReportSortKey(view, y),
                                         ReportSortKey(view, x))
         IN  << first >> \o report_rows(view, counted \ {first})

\* the four blocks write_block writes
create_count_excel(rows) ==
    [view \in Views |-> report_rows(view, value_counts(view, rows))]

----------------------------------------------------------------------------
(* The run: main() submits one process_folder job per sub-folder of the    *)
(* input root to a process pool and takes the results as they complete.    *)

Variants == {"Flipkart", "Meshoo", "JioMart"}

\* the options of config.json; only MeshooCropper reads "4x4" (fourByFour),
\* so it is left off for the other two
Configs(v) ==
    { c \in [sku_sort : BOOLEAN, courier_sort : BOOLEAN, soldBy_sort : BOOLEAN,
             keep_invoice : BOOLEAN, fourByFour : BOOLEAN] :
        v # "Meshoo" => ~c.fourByFour }

\* the working directory as a run can find it: without a "temp" folder, with
\* an empty one, or with one that holds the output.pdf of an earlier run.
\* Only MeshooCropper uses paths under it.
WorkDirs(v) ==
    { [tempdir |-> FALSE, temp_output |-> NoFile, result_temp |-> NoFile,
       error_pages |-> NoFile] }
    \cup (IF v = "Meshoo"
          THEN { [tempdir |-> TRUE, temp_output |-> o, result_temp |-> NoFile,
                  error_pages |-> NoFile] : o \in {NoFile, File(StaleDoc)} }
          ELSE {})

SeqsUpTo(S, n) == UNION { [1 .. k -> S] : k \in 0 .. n }

\* a folder of ReportPages pages, for the counts of the summary report
ReportPages == 3
ReportKinds(v) ==
    CASE v = "Flipkart" -> {"f_single", "f_multi", "f_nosku"}
      [] v = "JioMart" -> {"j_single", "j_multi", "j_nosku"}
      [] OTHER -> {}

Folders == DOMAIN input

NoOutput == [final |-> NoFile, errors |-> NoFile,
             summary |-> [exists |-> FALSE, rows |-> << >>,
                          blocks |-> [view \in Views |-> << >>]],
             log |-> FALSE]

Init ==
    /\ variant \in Variants
    /\ fs \in WorkDirs(variant)
    /\ \/ \E nf \in 1 .. MaxFolders :
             input \in [1 .. nf -> SeqsUpTo(Kinds(variant),
                                           IF nf = 1 THEN MaxPages
                                           ELSE MaxBatchPages)]
       \/ input \in [1 .. 1 -> [1 .. ReportPages -> ReportKinds(variant)]]
    \* the sort options are left off where no folder holds two pages
    /\ config \in { c \in Configs(variant) :
                      (\A f \in Folders : Len(input[f]) < 2) =>
                          ~(c.sku_sort \/ c.courier_sort \/ c.soldBy_sort) }
    /\ status = [answer |-> "none", outcome |-> "unchecked"]
    /\ all_pdf = [f \in Folders |-> << >>]
    /\ mainPc = "init"
    /\ collected = {}
    /\ pc = [f \in Folders |-> "idle"]
    /\ merged = [f \in Folders |-> << >>]
    /\ all_page = [f \in Folders |-> << >>]
    /\ pending = [f \in Folders |-> {}]
    /\ df = [f \in Folders |-> << >>]
    /\ error_pages = [f \in Folders |-> << >>]
    /\ sorted = [f \in Folders |-> << >>]
    /\ cropped = [f \in Folders |-> NoFile]
    /\ out = [f \in Folders |-> NoOutput]

inputs == << variant, config, input >>
statics == << inputs, status, all_pdf >>

\* what the server answers to requests.get(url)
Responses == {"enabled", "disabled", "non200", "unreachable"}

\* a check that looks at the "Status" field only
Flipkart_check_status_anyCode(r) ==
    CASE r = "unreachable" -> "raise"
      [] r \in {"enabled", "non200"} -> "return"
      [] OTHER -> "exit"

\* FlipkartCropper's check_status: requests.get is not guarded, so a server
\* that cannot be reached raises out of main(); any answer other than 200
\* with a true "Status" ends in sys.exit()
Flipkart_check_status(r) ==
    CASE r = "unreachable" -> "raise"
      [] r = "enabled" -> "return"
      [] OTHER -> "exit"

\* JioMartCropper's check_status: the request is guarded, and whatever is
\* not 200 with a true "Status" ends in sys.exit()
JioMart_check_status(r) == IF r = "enabled" THEN "return" ELSE "exit"

\* MeshooCropper's check_status: a remote "service enabled" check; the run
\* aborts when it reports disabled or cannot be reached
Meshoo_check_status(r) == IF r = "enabled" THEN "return" ELSE "exit"

check_status(v, r) ==
    CASE v = "Flipkart" -> Flipkart_check_status(r)
      [] v = "JioMart" -> JioMart_check_status(r)
      [] OTHER -> Meshoo_check_status(r)

\* main() / __main__: check_status() is the first call; the run goes on to
\* list the sub-folders only when it returns
CheckStatus ==
    /\ mainPc = "init"
    /\ \E r \in Responses :
          /\ status' = [answer |-> r, outcome |-> check_status(variant, r)]
          /\ mainPc' = IF status'.outcome = "return" THEN "start" ELSE "aborted"
    /\ UNCHANGED << inputs, all_pdf, collected, pc, merged, all_page, pending,
                    df, error_pages, sorted, cropped, fs, out >>

\* main(): executor.submit(process_folder, ...) for every sub-folder
Submit ==
    /\ mainPc = "start"
    /\ mainPc' = "collect"
    /\ pc' = [f \in Folders |-> "submitted"]
    /\ UNCHANGED << statics, collected, merged, all_page, pending, df,
                    error_pages, sorted, cropped, fs, out >>

\* a failure that takes the unfinished jobs of the pool down with it
Failed_stopsPool(f) ==
    /\ pc' = [g \in DOMAIN pc |->
                 IF g = f \/ pc[g] \notin {"done", "failed", "exit"}
                 THEN "failed" ELSE pc[g]]
    /\ out' = IF variant = "JioMart" THEN [out EXCEPT ![f].log = TRUE] ELSE out

\* process_folder's except branch: JioMartCropper writes error_<folder>.log
\* into the output folder, the other two print the exception
Failed(f) ==
    /\ pc' = [pc EXCEPT ![f] = "failed"]
    /\ out' = IF variant = "JioMart" THEN [out EXCEPT ![f].log = TRUE] ELSE out

\* check_input_file.  MeshooCropper calls sys.exit() for a folder without
\* files; the other two return an empty list and process_folder returns.
CheckInput(f) ==
    LET paths == check_input_file(variant, input[f])
    IN  /\ pc[f] = "submitted"
        /\ all_pdf' = [all_pdf EXCEPT ![f] = paths]
        /\ pc' = [pc EXCEPT ![f] =
                     IF paths # << >> THEN "merge"
                     ELSE IF variant = "Meshoo" THEN "exit" ELSE "done"]
        /\ UNCHANGED << inputs, status, mainPc, collected, merged, all_page,
                        pending, df, error_pages, sorted, cropped, fs, out >>

\* pdf_merger(all_pdfs, merged_pdf)
Merge(f) ==
    /\ pc[f] = "merge"
    /\ IF PdfReaderRaises(all_pdf[f])
       THEN Failed(f) /\ merged' = merged
       ELSE /\ merged' = [merged EXCEPT ![f] = pdf_merger(f, all_pdf[f])]
            /\ pc' = [pc EXCEPT ![f] = "convert"]
            /\ out' = out
    /\ UNCHANGED << statics, mainPc, collected, all_page, pending, df,
                    error_pages, sorted, cropped, fs >>

\* MeshooCropper, JioMartCropper: convert_pdf_to_string
Convert(f) ==
    /\ pc[f] = "convert"
    /\ variant # "Flipkart"
    /\ IF convert_raises(variant, merged[f])
       THEN Failed(f) /\ all_page' = all_page
       ELSE /\ all_page' = [all_page EXCEPT ![f] =
                                convert_pdf_to_string(variant, merged[f])]
            /\ pc' = [pc EXCEPT ![f] = "extract"]
            /\ out' = out
    /\ UNCHANGED << statics, mainPc, collected, merged, pending, df,
                    error_pages, sorted, cropped, fs >>

\* FlipkartCropper: convert_pdf_to_string submits one process_page per page
ConvertSubmit(f) ==
    /\ pc[f] = "convert"
    /\ variant = "Flipkart"
    /\ all_page' = [all_page EXCEPT ![f] = NoneList(Len(merged[f]))]
    /\ pending' = [pending EXCEPT ![f] = 0 .. Len(merged[f]) - 1]
    /\ pc' = [pc EXCEPT ![f] = "reading"]
    /\ UNCHANGED << statics, mainPc, collected, merged, df, error_pages,
                    sorted, cropped, fs, out >>

\* one turn of "for future in as_completed(futures)" in
\* convert_pdf_to_string: the text of the page that completes next is
\* stored, or its exception leaves the function; after the last turn the
\* function returns all_page
ConvertWorkerDone(f, idx) ==
    /\ pc[f] = "reading"
    /\ idx \in pending[f]
    /\ IF TextRaises(At(merged[f], idx).kind)
       THEN /\ Failed(f)
            /\ pending' = [pending EXCEPT ![f] = {}]
            /\ all_page' = all_page
       ELSE /\ all_page' = [all_page EXCEPT ![f] =
                                StoreText(@, idx, page_text(variant, At(merged[f], idx)))]
            /\ pending' = [pending EXCEPT ![f] = @ \ {idx}]
            /\ pc' = [pc EXCEPT ![f] = IF pending'[f] = {} THEN "extract" ELSE "reading"]
            /\ out' = out
    /\ UNCHANGED << statics, mainPc, collected, merged, df, error_pages,
                    sorted, cropped, fs >>

\* MeshooCropper, JioMartCropper: extract_data, and process_folder's return
\* when the table is empty.  MeshooCropper reads the error pages from
\* temp/output.pdf (process_folder wrote the merged document to
\* temp_path/merged.pdf) and writes output/error_pages.pdf; JioMartCropper
\* only counts them.
ExtractData(f) ==
    LET rows == Sequential_rows(variant, all_page[f], 0)
        errs == Sequential_errors(variant, all_page[f], 0)
        reads == variant = "Meshoo" /\ errs # << >>
        raises == reads /\ (\/ ~fs.temp_output.exists
                            \/ \E k \in 1 .. Len(errs) :
                                  ~InRange(fs.temp_output.pages, errs[k]))
    IN  /\ pc[f] = "extract"
        /\ variant # "Flipkart"
        /\ IF raises
           THEN Failed(f) /\ UNCHANGED << df, error_pages, fs >>
           ELSE /\ df' = [df EXCEPT ![f] = rows]
                /\ error_pages' = [error_pages EXCEPT ![f] = errs]
                /\ fs' = IF reads
                         THEN [fs EXCEPT !.error_pages =
                                  File(ErrorDoc(fs.temp_output.pages, errs))]
                         ELSE fs
                /\ pc' = [pc EXCEPT ![f] = IF rows = << >> THEN "done" ELSE "sort"]
                /\ out' = out
        /\ UNCHANGED << statics, mainPc, collected, merged, all_page, pending,
                        sorted, cropped >>

\* FlipkartCropper: extract_data submits one process_page per page text
ExtractSubmit(f) ==
    /\ pc[f] = "extract"
    /\ variant = "Flipkart"
    /\ pending' = [pending EXCEPT ![f] = 0 .. Len(all_page[f]) - 1]
    /\ pc' = [pc EXCEPT ![f] = "workers"]
    /\ UNCHANGED << statics, mainPc, collected, merged, all_page, df,
                    error_pages, sorted, cropped, fs, out >>

\* one turn of "for future in as_completed(futures)": the result of the page
\* worker that completes next is appended
WorkerDone(f, idx) ==
    LET r == Flipkart_process_page(idx, At(all_page[f], idx))
    IN  /\ pc[f] = "workers"
        /\ idx \in pending[f]
        /\ pending' = [pending EXCEPT ![f] = @ \ {idx}]
        /\ df' = [df EXCEPT ![f] = @ \o r.row]
        /\ error_pages' = [error_pages EXCEPT ![f] =
                              IF r.error THEN @ \o << idx >> ELSE @]
        /\ UNCHANGED << statics, mainPc, collected, pc, merged, all_page,
                        sorted, cropped, fs, out >>

\* the rest of extract_data: the error pages are copied from the merged
\* document into error_pages_<timestamp>.pdf of the output folder
ExtractFinish(f) ==
    /\ pc[f] = "workers"
    /\ pending[f] = {}
    /\ out' = IF error_pages[f] # << >>
              THEN [out EXCEPT ![f].errors =
                       File(ErrorDoc(merged[f], error_pages[f]))]
              ELSE out
    /\ pc' = [pc EXCEPT ![f] = "sort"]
    /\ UNCHANGED << statics, mainPc, collected, merged, all_page, pending, df,
                    error_pages, sorted, cropped, fs >>

\* process_folder: the columns are cleaned and the table is sorted.  On an
\* empty table (FlipkartCropper does not return early) df["sku"] raises.
SortTable(f) ==
    /\ pc[f] = "sort"
    /\ IF df[f] = << >>
       THEN Failed(f) /\ df' = df
       ELSE /\ \E t \in sort_values(variant, config, CleanTable(df[f])) :
                  df' = [df EXCEPT ![f] = t]
            /\ pc' = [pc EXCEPT ![f] = "reorder"]
            /\ out' = out
    /\ UNCHANGED << statics, mainPc, collected, merged, all_page, pending,
                    error_pages, sorted, cropped, fs >>

\* process_folder: the sorted PDF is written page by page
CreateSortedPdf(f) ==
    /\ pc[f] = "reorder"
    /\ sorted' = [sorted EXCEPT ![f] = ReorderPages(merged[f], df[f])]
    /\ pc' = [pc EXCEPT ![f] = IF variant = "Flipkart" THEN "crop" ELSE "whitespace"]
    /\ UNCHANGED << statics, mainPc, collected, merged, all_page, pending, df,
                    error_pages, cropped, fs, out >>

Whitespace(f) ==
    /\ pc[f] = "whitespace"
    /\ sorted' = [sorted EXCEPT ![f] = pdf_whitespace(sorted[f])]
    /\ pc' = [pc EXCEPT ![f] = "crop"]
    /\ UNCHANGED << statics, mainPc, collected, merged, all_page, pending, df,
                    error_pages, cropped, fs, out >>

\* pdf_cropper.  FlipkartCropper and JioMartCropper save the result under
\* the job's temporary directory, MeshooCropper as temp/result_temp.pdf
\* under the working directory, which raises when there is no "temp".
Crop(f) ==
    LET result == CropPages(variant, sorted[f], config)
        raises == \/ variant = "JioMart"
                     /\ \E k \in 1 .. Len(sorted[f]) : JioMart_crop_raises(sorted[f][k])
                  \/ variant = "Meshoo" /\ ~fs.tempdir
    IN  /\ pc[f] = "crop"
        /\ IF raises
           THEN Failed(f) /\ UNCHANGED << cropped, fs >>
           ELSE /\ cropped' = IF variant = "Meshoo" THEN cropped
                              ELSE [cropped EXCEPT ![f] = File(result)]
                /\ fs' = IF variant = "Meshoo"
                         THEN [fs EXCEPT !.result_temp = File(result)]
                         ELSE fs
                /\ pc' = [pc EXCEPT ![f] = "save"]
                /\ out' = out
        /\ UNCHANGED << statics, mainPc, collected, merged, all_page, pending,
                        df, error_pages, sorted >>

\* process_folder: the file pdf_cropper named is copied (moved) to the
\* output folder as result_<timestamp>.pdf
SaveFinal(f) ==
    /\ pc[f] = "save"
    /\ out' = [out EXCEPT ![f].final =
                  IF variant = "Meshoo" THEN fs.result_temp ELSE cropped[f]]
    /\ pc' = [pc EXCEPT ![f] = "excel"]
    /\ UNCHANGED << statics, mainPc, collected, merged, all_page, pending, df,
                    error_pages, sorted, cropped, fs >>

\* create_count_excel(whole_data, ...).  MeshooCropper's takes one argument
\* and is called with two: TypeError.
Excel(f) ==
    /\ pc[f] = "excel"
    /\ IF variant = "Meshoo"
       THEN Failed(f)
       ELSE /\ out' = [out EXCEPT ![f].summary =
                                 [exists |-> TRUE, rows |-> df[f],
                                  blocks |-> create_count_excel(df[f])]]
            /\ pc' = [pc EXCEPT ![f] = "done"]
    /\ UNCHANGED << statics, mainPc, collected, merged, all_page, pending, df,
                    error_pages, sorted, cropped, fs >>

Finished(f) == pc[f] \in {"done", "failed", "exit"}

\* main(): one turn of "for future in as_completed(futures)".  The SystemExit
\* of a job is raised again by future.result() and is no Exception: it
\* leaves main().
Collect(f) ==
    /\ mainPc = "collect"
    /\ Finished(f)
    /\ f \notin collected
    /\ IF pc[f] = "exit"
       THEN mainPc' = "exited" /\ collected' = collected
       ELSE mainPc' = mainPc /\ collected' = collected \cup {f}
    /\ UNCHANGED << statics, pc, merged, all_page, pending, df, error_pages,
                    sorted, cropped, fs, out >>

\* main(): the loop is over, "All folders processed successfully."
Finish ==
    /\ mainPc = "collect"
    /\ collected = Folders
    /\ mainPc' = "end"
    /\ UNCHANGED << statics, collected, pc, merged, all_page, pending, df,
                    error_pages, sorted, cropped, fs, out >>

Next ==
    \/ CheckStatus
    \/ Submit
    \/ Finish
    \/ \E f \in Folders : CheckInput(f)
    \/ \E f \in Folders : Merge(f)
    \/ \E f \in Folders : Convert(f)
    \/ \E f \in Folders : ConvertSubmit(f)
    \/ \E f \in Folders : \E idx \in pending[f] : ConvertWorkerDone(f, idx)
    \/ \E f \in Folders : ExtractData(f)
    \/ \E f \in Folders : ExtractSubmit(f)
    \/ \E f \in Folders : \E idx \in pending[f] : WorkerDone(f, idx)
    \/ \E f \in Folders : ExtractFinish(f)
    \/ \E f \in Folders : SortTable(f)
    \/ \E f \in Folders : CreateSortedPdf(f)
    \/ \E f \in Folders : Whitespace(f)
    \/ \E f \in Folders : Crop(f)
    \/ \E f \in Folders : SaveFinal(f)
    \/ \E f \in Folders : Excel(f)
    \/ \E f \in Folders : Collect(f)

Spec == Init /\ [][Next]_vars

----------------------------------------------------------------------------
(* Properties of the record table and of its sorted order.                 *)

\* extract_data has returned for folder f and process_folder holds its table
Extracted(f) ==
    \/ pc[f] \in {"sort", "reorder", "whitespace", "crop", "save", "excel"}
    \/ pc[f] = "done" /\ all_page[f] # << >>

\* the rows of folder f's table that hold page index i
RowsOfPage(f, i) == { k \in 1 .. Len(df[f]) : df[f][k].page = i }

\* C1: after extract_data has run over the N page texts of a folder, the
\* record table holds exactly one record for each page index 0..N-1,
\* whatever could or could not be extracted from the page.
C1_OneRecordPerPage ==
    \A f \in Folders :
        Extracted(f) =>
            /\ Len(df[f]) = Len(all_page[f])
            /\ \A i \in 0 .. Len(all_page[f]) - 1 :
                  Cardinality(RowsOfPage(f, i)) = 1

\* the pages of a document, as (folder, page index) pairs
PagesOf(file) ==
    IF file.exists
    THEN { << file.pages[k].f, file.pages[k].i >> : k \in 1 .. Len(file.pages) }
    ELSE {}

\* the error-pages PDF folder f's job wrote: error_pages_<timestamp>.pdf in
\* the folder's output (FlipkartCropper), output/error_pages.pdf under the
\* working directory (MeshooCropper), none (JioMartCropper)
ErrorsFile(f) == IF variant = "Meshoo" THEN fs.error_pages ELSE out[f].errors

\* C2: once the final PDF of a folder is saved, every page of the folder's
\* merged document is in the final PDF or in the error-pages PDF.
C2_NoPageLost ==
    \A f \in Folders :
        out[f].final.exists =>
            \A i \in 0 .. Len(merged[f]) - 1 :
                << f, i >> \in PagesOf(out[f].final) \cup PagesOf(ErrorsFile(f))

\* the table of folder f is sorted and not yet used
Sorted(f) == pc[f] = "reorder"

\* C3: in the sorted table, of two records that agree on every active sort
\* key (multi and each enabled one of sku, courier, soldBy) the one with the
\* smaller page index comes first, under every setting of the sort options.
C3_TiesKeepPageOrder ==
    \A f \in Folders :
        Sorted(f) =>
            \A a, b \in 1 .. Len(df[f]) :
                (a < b /\ SortKey(variant, config, df[f][a])
                             = SortKey(variant, config, df[f][b]))
                    => df[f][a].page < df[f][b].page

\* C4: in the sorted table every multi-item record precedes every
\* single-item record.
C4_MultiBeforeSingle ==
    \A f \in Folders :
        Sorted(f) =>
            \A a, b \in 1 .. Len(df[f]) :
                (df[f][a].multi /\ ~df[f][b].multi) => a < b

----------------------------------------------------------------------------
(* Properties of the documents a folder job writes.                        *)

\* the sorted PDF of folder f is written
SortedWritten(f) == pc[f] \in {"whitespace", "crop", "save", "excel", "done"}

\* C5: the sorted document holds the pages of the merged document in the
\* order of the page column of the sorted table: page k of it is the merged
\* document's page df.page[k], unchanged, and no page index occurs twice.
C5_SortedDocFollowsPageColumn ==
    \A f \in Folders :
        SortedWritten(f) =>
            /\ Len(sorted[f]) = Len(df[f])
            /\ \A k \in 1 .. Len(df[f]) :
                  /\ InRange(merged[f], df[f][k].page)
                  /\ sorted[f][k].f = f
                  /\ sorted[f][k].i = df[f][k].page
                  /\ sorted[f][k].kind = At(merged[f], df[f][k].page).kind
            /\ \A a, b \in 1 .. Len(df[f]) :
                  a # b => df[f][a].page # df[f][b].page

\* C5, its case: a sorted document of two pages that starts with page 1
C5_Reordered ==
    \E f \in Folders :
        /\ SortedWritten(f)
        /\ Len(sorted[f]) = 2
        /\ sorted[f][1].i = 1
        /\ sorted[f][2].i = 0

\* SKU extraction fails on a page text: sku_extract raises, takes its except
\* branch or returns the empty string
SkuFailed(v, page) ==
    CASE v = "Flipkart" -> LET r == Flipkart_sku_extract(page)
                           IN  r.raised \/ r.sku = ""
      [] v = "Meshoo" -> Meshoo_sku_extract(page) \in {"", "0"}
      [] OTHER -> JioMart_sku_extract(page) = ""

\* the pages of folder f on which SKU extraction fails
SkuFailedPages(f) ==
    { << f, i >> : i \in { j \in 0 .. Len(all_page[f]) - 1 :
                             SkuFailed(variant, At(all_page[f], j)) } }

\* C6: once extract_data has returned, the error-pages document of the
\* folder holds exactly the pages whose SKU extraction failed, and exists
\* whenever there is such a page.
C6_ErrorPagesExact ==
    \A f \in Folders :
        Extracted(f) => PagesOf(ErrorsFile(f)) = SkuFailedPages(f)

\* the pages one pass of pdf_cropper's loop adds for page p
CropPage(p) ==
    CASE variant = "Flipkart" -> Flipkart_crop_page(p, config)
      [] variant = "Meshoo" -> Meshoo_crop_page(p, config)
      [] OTHER -> JioMart_crop_page(p, config)

\* cropping page p raises an exception
CropRaises(p) ==
    IF variant = "JioMart" THEN JioMart_crop_raises(p)
    ELSE \E k \in 1 .. Len(CropPage(p)) : CropPage(p)[k].via = "fallback"

\* the file pdf_cropper saved for folder f
CroppedFile(f) == IF variant = "Meshoo" THEN fs.result_temp ELSE cropped[f]

\* the pages of a document that come from page p
OutputOf(pages, p) ==
    SelectSeq(pages, LAMBDA q : q.f = p.f /\ q.i = p.i)

\* C7: where cropping a page of the sorted document raises, pdf_cropper
\* still returns: the job goes on to save the result, and the result holds
\* the whole page.
C7_FallbackKeepsJob ==
    [][\A f \in Folders :
          ( /\ pc[f] = "crop"
            /\ variant = "Meshoo" => fs.tempdir
            /\ \E k \in 1 .. Len(sorted[f]) : CropRaises(sorted[f][k]) )
          => \/ pc'[f] = "crop"
             \/ /\ pc'[f] = "save"
                /\ \A k \in 1 .. Len(sorted[f]) :
                      CropRaises(sorted[f][k]) =>
                          \E j \in 1 .. Len(CroppedFile(f)'.pages) :
                              /\ CroppedFile(f)'.pages[j].i = sorted[f][k].i
                              /\ CroppedFile(f)'.pages[j].box = "full"]_vars

\* C8: the cropped document has one page per page of the sorted document
\* and one more per invoice page, and a page that took the whole-page
\* fallback has exactly one page in it.
C8_PageCount ==
    \A f \in Folders :
        pc[f] = "save" =>
            LET result == CroppedFile(f).pages
            IN  /\ Len(result) = Len(sorted[f])
                       + Cardinality({ j \in 1 .. Len(result) :
                                         result[j].box = "invoice" })
                /\ \A k \in 1 .. Len(sorted[f]) :
                      CropRaises(sorted[f][k]) =>
                          Len(OutputOf(result, sorted[f][k])) = 1

\* the boxes of a sequence of output pages
Boxes(pages) == [k \in 1 .. Len(pages) |-> pages[k].box]

\* page p was cropped: no pass of the loop raised on it and it was not
\* copied whole for want of content
CroppedWell(pages, p) ==
    /\ OutputOf(pages, p) # << >>
    /\ \A k \in 1 .. Len(OutputOf(pages, p)) : OutputOf(pages, p)[k].via = "crop"

\* C9: without the combined single-sheet mode, a page that was cropped
\* gives the label page followed by the invoice page when keep_invoice is
\* on, and the label page alone when it is off.
C9_LabelThenInvoice ==
    \A f \in Folders :
        (pc[f] = "save" /\ ~config.fourByFour) =>
            LET result == CroppedFile(f).pages
            IN  \A k \in 1 .. Len(sorted[f]) :
                    CroppedWell(result, sorted[f][k]) =>
                        Boxes(OutputOf(result, sorted[f][k])) =
                            IF config.keep_invoice THEN << "label", "invoice" >>
                            ELSE << "label" >>

\* C10: under every interleaving of the folder jobs, the final PDF and the
\* error-pages PDF of a folder hold no page of another folder of the run.
C10_OwnPagesOnly ==
    \A f \in Folders :
        \A q \in PagesOf(out[f].final) \cup PagesOf(ErrorsFile(f)) :
            q[1] \in Folders => q[1] = f

----------------------------------------------------------------------------
(* Properties of the coordinator and of the folder jobs as a batch.        *)

\* folder job g can take a step.  ExtractData(g) is left to its guard: it
\* is an IF of which either branch can be taken from any state.
CanStep(g) ==
    \/ pc[g] = "extract" /\ variant # "Flipkart"
    \/ ENABLED \/ CheckInput(g) \/ Merge(g) \/ Convert(g) \/ ConvertSubmit(g)
               \/ \E idx \in pending[g] : ConvertWorkerDone(g, idx)
               \/ ExtractSubmit(g)
               \/ \E idx \in pending[g] : WorkerDone(g, idx)
               \/ ExtractFinish(g) \/ SortTable(g) \/ CreateSortedPdf(g)
               \/ Whitespace(g) \/ Crop(g) \/ SaveFinal(g) \/ Excel(g)

\* job f has ended in a failure: process_folder's except branch, or the
\* sys.exit() of MeshooCropper's check_input_file
Halted(f) == pc[f] \in {"failed", "exit"}
\* job g has been submitted and has not ended
Running(g) == pc[g] \notin {"idle", "done", "failed", "exit"}

\* C11: the failure of one folder's job (an exception in a stage, an empty
\* folder, an input file that cannot be read) leaves every other folder's
\* job able to take its next step until it has ended, and the step in
\* which the job fails changes neither the position nor the outputs of any
\* other job.
C11_FailureIsLocal ==
    [][\A f, g \in Folders :
          f # g =>
              /\ (~Halted(f) /\ Halted(f)') =>
                     (pc'[g] = pc[g] /\ out'[g] = out[g])
              /\ (Halted(f)' /\ Running(g)') => CanStep(g)']_vars

\* one job has failed and another has ended with its final PDF and summary
C11_OneFailsOtherEnds ==
    \E f, g \in Folders :
        /\ f # g /\ Halted(f)
        /\ pc[g] = "done" /\ out[g].final.exists /\ out[g].summary.exists

\* C12: main() takes the outcome of every submitted job and then reaches
\* the end of the batch, whatever the outcomes were: it is never past its
\* collecting loop without having collected every folder's job.
C12_CollectsEveryOutcome ==
    mainPc \in {"end", "exited"} => (mainPc = "end" /\ collected = Folders)

\* some folder has been listed, created or processed
Touched == \E f \in Folders : pc[f] # "idle" \/ out[f] # NoOutput

\* C13: no folder is listed, created or processed before check_status has
\* returned on an enabled answer; on a disabled, non-200 or unreachable
\* server the run has ended and no folder is ever touched.
C13_StatusFirst ==
    /\ (Touched \/ mainPc \in {"start", "collect", "end", "exited"}) =>
           (status.answer = "enabled" /\ status.outcome = "return")
    /\ status.answer \in {"disabled", "non200", "unreachable"} =>
           (mainPc = "aborted" /\ ~Touched)

\* the server did not answer "enabled" and the run is over
C13_Aborted ==
    status.answer \in {"disabled", "non200", "unreachable"} /\ mainPc = "aborted"

----------------------------------------------------------------------------
(* Properties of the input check and of the text conversion.               *)

\* the merge of job f raised on its input
MergeRaised(f) == pc[f] = "failed" /\ all_pdf[f] # << >> /\ merged[f] = << >>

\* C14: the files handed to pdf_merger are exactly the entries of the
\* folder that begin with the PDF signature, in listing order, and an
\* entry without it does not make the job fail.
C14_OnlySignedFilesMerged ==
    \A f \in Folders :
        /\ pc[f] \notin {"idle", "submitted"} =>
               all_pdf[f] = SelectSeq(input[f], HasPdfSignature)
        /\ ~MergeRaised(f)

\* convert_pdf_to_string has returned to job f
ConvertReturned(f) == pc[f] = "extract"
\* convert_pdf_to_string has raised in job f: no text list, or one with a
\* slot that was never stored
ConvertRaised(f) ==
    /\ pc[f] = "failed" /\ merged[f] # << >>
    /\ (all_page[f] = << >> \/ \E k \in 1 .. Len(all_page[f]) : all_page[f][k] = None)

\* C15: convert_pdf_to_string returns one text per page of the merged
\* document, in page order; the entry of a page whose text cannot be read
\* is the empty string and every other page's text is at its own index.
C15_OneTextPerPage ==
    \A f \in Folders :
        /\ ~ConvertRaised(f)
        /\ ConvertReturned(f) =>
               /\ Len(all_page[f]) = Len(merged[f])
               /\ \A k \in 1 .. Len(merged[f]) :
                      all_page[f][k] = IF TextRaises(merged[f][k].kind) THEN << >>
                                       ELSE page_text(variant, merged[f][k])

\* the courier token printed on a page of each kind
CourierToken(kind) ==
    CASE kind \in {"m_multi", "m_blank", "m_nosku", "f_multi", "f_nosku", "f_twosku",
                   "j_multi", "j_nosku"} -> "Delhivery"
      [] kind \in {"m_single", "m_payfirst", "f_single", "f_narrow", "f_nospace",
                   "j_single", "j_corrupt"} -> "Ekart"
      [] kind = "m_top" -> "lhs-r0"
      [] kind = "m_noqty" -> "C"
      [] OTHER -> ""

\* C16: the courier of every record is the stated normalisation of the
\* token its page prints: the fallback carrier for "c", "lsh-r0" and "",
\* the lower-cased, trimmed token otherwise, and then never the fallback.
C16_CourierNormalised ==
    \A f \in Folders :
        \A k \in 1 .. Len(df[f]) :
            LET tok == CourierToken(At(merged[f], df[f][k].page).kind)
                low == Lower(Strip(tok))
            IN  tok # "" =>
                    df[f][k].courier =
                        IF low \in {"c", "lsh-r0", ""} THEN "valmo" ELSE low

\* the pages that print no quantity
QtyMissing(kind) == kind \in {"m_noqty", "j_empty"}

\* C17: the quantity of every record is a positive integer, and a page on
\* which no quantity can be parsed has a record with quantity 1.
C17_QuantityPositive ==
    \A f \in Folders :
        /\ \A k \in 1 .. Len(df[f]) : df[f][k].qty \in Nat \ {0}
        /\ Extracted(f) =>
               \A i \in 0 .. Len(all_page[f]) - 1 :
                   QtyMissing(At(merged[f], i).kind) =>
                       \E k \in RowsOfPage(f, i) : df[f][k].qty = 1

\* C18: a folder job in which merge, extraction, sorting and cropping have
\* succeeded, so that its result PDF is saved, ends with the summary
\* spreadsheet in the folder's output as well.
C18_ResultAndSummary ==
    \A f \in Folders :
        (Finished(f) /\ out[f].final.exists) => out[f].summary.exists

\* C19: whatever the order in which the page workers of extract_data
\* complete, the rows of the table it returns are in ascending order of
\* page index.
C19_RowsInPageOrder ==
    \A f \in Folders :
        pc[f] = "sort" =>
            \A j, k \in 1 .. Len(df[f]) : j < k => df[f][j].page < df[f][k].page

\* C20: whatever the order in which the page workers of
\* convert_pdf_to_string complete, a slot of all_page holds nothing or the
\* text of its own page, and on return entry i is the text of page i and
\* no entry is unset.
C20_TextAtOwnIndex ==
    \A f \in Folders :
        variant = "Flipkart" =>
            /\ pc[f] = "reading" =>
                   \A k \in 1 .. Len(all_page[f]) :
                       all_page[f][k] \in {None, page_text(variant, merged[f][k])}
            /\ ConvertReturned(f) =>
                   /\ Len(all_page[f]) = Len(merged[f])
                   /\ \A k \in 1 .. Len(merged[f]) :
                          all_page[f][k] = page_text(variant, merged[f][k])

\* convert_pdf_to_string has returned the texts of two different pages
C20_TwoTextsReturned ==
    \E f \in Folders :
        /\ variant = "Flipkart" /\ ConvertReturned(f)
        /\ Len(all_page[f]) = 2 /\ all_page[f][1] # all_page[f][2]

----------------------------------------------------------------------------
(* Properties of the sort keys and of the multi flag.                      *)

\* C21: the sort leaves the cleaned rows in the lexicographic order of the
\* key (multi, false first; lower-cased sku if sku_sort is on, descending
\* in FlipkartCropper and MeshooCropper and ascending in JioMartCropper;
\* courier ascending if courier_sort is on; soldBy ascending if soldBy_sort
\* is on), and where the sort is stable rows that are equal in every
\* enabled key stay in the order they had before the sort, whatever their
\* other columns hold.
C21_LexicographicOrder ==
    [][\A f \in Folders :
          (pc[f] = "sort" /\ pc'[f] = "reorder") =>
              LET old == CleanTable(df[f])
                  new == df'[f]
                  \* the position of the row of page p in table t
                  PosOfPage(t, p) ==
                      IF \E k \in 1 .. Len(t) : t[k].page = p
                      THEN CHOOSE k \in 1 .. Len(t) : t[k].page = p
                      ELSE 0
                  \* a sort over two or more columns is stable, as is one
                  \* over "multi" alone on a short table
                  stable == \/ config.sku_sort \/ config.courier_sort
                            \/ config.soldBy_sort \/ SortsByInsertion(old)
                  key(r) ==
                      << IF r.multi THEN 1 ELSE 0 >>
                      \o (IF config.sku_sort
                          THEN << (IF variant = "JioMart" THEN 1 ELSE -1)
                                  * StrRank(Lower(r.sku)) >>
                          ELSE << >>)
                      \o (IF config.courier_sort
                          THEN << StrRank(r.courier) >> ELSE << >>)
                      \o (IF config.soldBy_sort
                          THEN << StrRank(r.soldBy) >> ELSE << >>)
              IN  /\ Len(new) = Len(old)
                  /\ \A k \in 1 .. Len(old) : new[PosOfPage(new, old[k].page)] = old[k]
                  /\ \A j, k \in 1 .. Len(new) :
                         j < k =>
                             /\ ~TupleLess(key(new[k]), key(new[j]))
                             /\ (key(new[j]) = key(new[k]) /\ stable) =>
                                    PosOfPage(old, new[j].page) <
                                        PosOfPage(old, new[k].page)]_vars

\* a table read in page order has been sorted, and a key other than multi
\* has put a later page before an earlier one
C21_ReorderedByKey ==
    \E f \in Folders :
        /\ variant # "Flipkart" /\ pc[f] = "reorder" /\ Len(df[f]) = 2
        /\ df[f][1].multi = df[f][2].multi
        /\ df[f][1].page > df[f][2].page

\* C22: the multi flag of a record is true exactly when its quantity is
\* greater than 1 or more than one quantity line was found on its page.
\* Every fixture page prints at most one quantity line, so the flag is to
\* be true exactly when the quantity is greater than 1.
C22_MultiIffQuantity ==
    \A f \in Folders :
        \A k \in 1 .. Len(df[f]) : df[f][k].multi <=> df[f][k].qty > 1

\* C23: a field anchored on the next line takes the first non-empty line
\* after the line that holds its marker, also when blank lines stand
\* between the two: the sku, the quantity and the seller of every
\* MeshooCropper record whose page prints the marker and a value.
C23_NextNonEmptyLine ==
    \A f \in Folders :
        variant = "Meshoo" =>
            \A k \in 1 .. Len(df[f]) :
                LET lines == NonEmptyLines(At(all_page[f], df[f][k].page))
                    printed(marker) ==
                        /\ FirstIdx(lines, marker) >= 0
                        /\ InRange(lines, FirstIdx(lines, marker) + 1)
                    value(marker) == At(lines, FirstIdx(lines, marker) + 1)
                IN  /\ printed("SKU") =>
                           Strip(df[f][k].sku) = Strip(LineStr(value("SKU")))
                    /\ printed("Qty") => df[f][k].qty = LineInt(value("Qty"))
                    /\ printed("If undelivered, return to:") =>
                           Strip(df[f][k].soldBy) =
                               Strip(LineStr(value("If undelivered, return to:")))

----------------------------------------------------------------------------
(* Properties of the cropped document and of its rectangles.               *)

\* C24: in the document pdf_cropper saves, every page that is an
\* unmodified fallback copy comes after every page that was cropped, and
\* the cropped pages follow the order of the sorted document.
C24_FallbackPagesLast ==
    \A f \in Folders :
        pc[f] = "save" =>
            LET result == CroppedFile(f).pages
                place(q) == CHOOSE k \in 1 .. Len(sorted[f]) : sorted[f][k].i = q.i
            IN  \A j, k \in 1 .. Len(result) :
                    j < k =>
                        /\ ~(result[j].via = "fallback" /\ result[k].via = "crop")
                        /\ (result[j].via = "crop" /\ result[k].via = "crop") =>
                               place(result[j]) <= place(result[k])

\* C25: a page on which no invoice heading is found gets a label rectangle
\* of positive width and positive height that lies inside the page, and the
\* saved document holds the page cropped to that rectangle (FlipkartCropper).
C25_FallbackLabelRect ==
    \A f \in Folders :
        (variant = "Flipkart" /\ pc[f] = "save") =>
            \A k \in 1 .. Len(sorted[f]) :
                LET p == sorted[f][k]
                    r == Flipkart_label_rect(p.kind)
                    result == CroppedFile(f).pages
                IN  find_invoice_y(p.kind) < 0 =>
                        /\ RectWidth(r) > 0
                        /\ RectHeight(r) > 0
                        /\ RectInside(r, PageW(p.kind), PageH(p.kind))
                        /\ \E j \in 1 .. Len(result) :
                               /\ result[j].i = p.i
                               /\ result[j].box = "label"
                               /\ result[j].via = "crop"

----------------------------------------------------------------------------
(* Properties of the failure of a folder job and of the summary report.    *)

\* C27: a folder job in which a stage raised has ended in process_folder's
\* own handler, not with an exception that reaches main(), and an error log
\* named after the folder stands in the folder's output location.
C27_ErrorLogWritten ==
    \A f \in Folders :
        Halted(f) => (pc[f] = "failed" /\ out[f].log)

C29_CountsSumToRecords ==
    \A f \in Folders :
        out[f].summary.exists =>
            LET rows == out[f].summary.rows
                columns(view, r) ==
                    CASE view = "sku" ->
                             << r.qty, r.soldBy,
                                IF "color" \in DOMAIN r THEN r.color ELSE "",
                                r.sku >>
                      [] view = "courierSold" -> << r.courier, r.soldBy >>
                      [] view = "courier" -> << r.courier >>
                      [] OTHER -> << r.soldBy >>
            IN  \A view \in Views :
                    LET block == out[f].summary.blocks[view]
                    IN  /\ SumSeq([k \in 1 .. Len(block) |-> block[k].Count])
                               = Len(rows)
                        /\ \A i \in 1 .. Len(rows) :
                               Cardinality({ k \in 1 .. Len(block) :
                                               block[k].key = columns(view, rows[i]) })
                                   = 1

\* C29 witness: a report over three records, one of them without a SKU
C29_EmptySkuCounted ==
    \E f \in Folders :
        /\ out[f].summary.exists
        /\ Len(out[f].summary.rows) = 3
        /\ \E i \in 1 .. 3 : out[f].summary.rows[i].sku = ""
        /\ \E i \in 1 .. 3 : out[f].summary.rows[i].sku # ""

\* C30: in JioMartCropper the text of every page handed to extract_data is
\* a single line, with no line break in it, and size_extract and
\* color_extract have returned "" for every record.
C30_NoNewlineNoSizeColor ==
    \A f \in Folders :
        variant = "JioMart" =>
            /\ \A k \in 1 .. Len(all_page[f]) : Len(all_page[f][k]) <= 1
            /\ \A k \in 1 .. Len(df[f]) :
                   df[f][k].size = "" /\ df[f][k].color = ""

\* C30 witness: a record was extracted from a page that prints a size and a
\* color, each on the line after its heading
C30_SizePrintedNotExtracted ==
    \E f \in Folders :
        /\ variant = "JioMart"
        /\ \E k \in 1 .. Len(df[f]) :
               /\ InRange(merged[f], df[f][k].page)
               /\ At(merged[f], df[f][k].page).kind = "j_multi"
               /\ Meshoo_next_line(PageText("j_multi"), "Size") = "M"
               /\ df[f][k].size = ""

============================================================================
